---- MODULE Spec2Model ----
(***************************************************************************)
(* Model of the conference backend API (src/backend/api.py): the HTTP      *)
(* handlers over the profile store, the preference store and the abstract  *)
(* index.  Each handler is one action; its response is left in `resp`.     *)
(* The embedding script (src/scripts/embeddings.py) is modelled beside it. *)
(* The store helpers of utils (get_user_info, get_data, set_data,          *)
(* update_data) are not part of the sources at hand; they are modelled as  *)
(* the document-store client the handlers are written against.             *)
(***************************************************************************)
EXTENDS Integers, Sequences, FiniteSets, TLC

VARIABLES
    users,      \* user_collection: user id -> profile document (partial)
    prefs,      \* preference_collection: user id -> {edition: [ids]} (partial)
    profile,    \* history: user id -> the document its accepted writes define
    last_write, \* history: user id -> the document handed to the store last
    inflight,   \* update_user_votes requests between their read and write
    table,      \* the submission records of the table store, by record id
    outbox,     \* the confirmation emails handed to the mail service
    listing,    \* the abstract-listing request waiting to be served, if any
    embed,      \* a call of calculate_embeddings and what it came to
    batch,      \* the run of the embedding script over its input files
    resp        \* the response of the handler that completed last

vars ==
    <<users, prefs, profile, last_write, inflight, table, outbox, listing,
      embed, batch, resp>>

\* the state of the embedding script, which no handler touches
offline == <<embed, batch>>

\* what the profile handlers, and what the preference handlers, never touch
beside_profiles == <<prefs, inflight, table, outbox, listing, offline>>
beside_prefs == <<users, profile, last_write, table, outbox, listing, offline>>

----------------------------------------------------------------------------
(* Bounds *)

\* the number of update_user_votes requests that can overlap
MaxRequests == 2

\* skip ranges over -MaxSkip..MaxSkip, limit over -MaxLimit..MaxLimit
MaxSkip == 4
MaxLimit == 2

\* the most rows an input table of the embedding script has, and the most
\* input files one run of the script finds
MaxRows == 31
MaxPaths == 2

\* the number of abstracts in the index of the first edition (at most 5)
NumIndexed == 3

\* the number of submission records the table store comes to hold
MaxRecords == 2

----------------------------------------------------------------------------
(* Values *)

\* Python's None for an optional value: the empty option.
None == {}
Some(x) == {x}
The(opt) == CHOOSE x \in opt : TRUE

HTTP_200_OK == 200
HTTP_400_BAD_REQUEST == 400
HTTP_401_UNAUTHORIZED == 401
HTTP_404_NOT_FOUND == 404
\* the framework's answer to an exception that leaves a handler
HTTP_500_INTERNAL_SERVER_ERROR == HTTP_400_BAD_REQUEST + 100

Users == {"u1", "u2"}
NoAuth == "<absent>"
Authorizations == {NoAuth, "Bearer invalid", "Bearer u1", "Bearer u2"}

\* utils.get_user_info: the decoded identity token, None when the header is
\* missing or does not verify.
get_user_info(authorization) ==
    CASE authorization = "Bearer u1" ->
             Some([user_id |-> "u1", email |-> "u1@example.org"])
      [] authorization = "Bearer u2" ->
             Some([user_id |-> "u2", email |-> "u2@example.org"])
      [] OTHER -> None

\* utils.get_data: the document of user_id in a collection, None when absent.
get_data(user_id, collection) ==
    IF user_id \in DOMAIN collection THEN Some(collection[user_id]) ELSE None

\* utils.set_data: create or overwrite the document.
set_data(data, user_id, collection) ==
    [u \in DOMAIN collection \cup {user_id} |->
        IF u = user_id THEN data ELSE collection[u]]

\* dict merge: the fields of data written over those of doc.
Merge(doc, data) ==
    [k \in DOMAIN doc \cup DOMAIN data |->
        IF k \in DOMAIN data THEN data[k] ELSE doc[k]]

\* utils.update_data: merge the fields into an existing document.  The
\* client raises NotFound when the document does not exist; UpdateRaises
\* tells when, update_data gives the collection otherwise.
UpdateRaises(user_id, collection) == user_id \notin DOMAIN collection

update_data(data, user_id, collection) ==
    [collection EXCEPT ![user_id] = Merge(@, data)]

EmptyDoc == [k \in {} |-> ""]

----------------------------------------------------------------------------
(* Profile documents and request bodies *)

ProfileKeys == {"name"}
ProfileVals == {"a", "b"}

\* the profile payloads a client can send
Payloads ==
    UNION {[K -> ProfileVals] : K \in SUBSET ProfileKeys}

\* the request bodies of POST/PUT /api/user: the documented envelope
\* {"id": ..., "payload": ...}, or a bare profile document
Bodies ==
    {[id |-> "x", payload |-> p] : p \in Payloads} \cup Payloads

Response(handler, authorization, status) ==
    [handler |-> handler, auth |-> authorization, status |-> status]

Raised(handler, authorization, exc) ==
    [handler |-> handler, auth |-> authorization,
     status |-> HTTP_500_INTERNAL_SERVER_ERROR, exc |-> exc]

Valid(authorization) == get_user_info(authorization) # None
UserOf(authorization) == The(get_user_info(authorization)).user_id

----------------------------------------------------------------------------
(* Profile handlers *)

get_user(authorization) ==
    LET user_info == get_user_info(authorization) IN
    /\ IF user_info # None
       THEN LET user_id == The(user_info).user_id
                user == get_data(user_id, users)
            IN resp' = [handler |-> "get_user", auth |-> authorization,
                        status |-> HTTP_200_OK,
                        data |-> IF user # None THEN The(user) ELSE EmptyDoc]
       ELSE resp' = Response("get_user", authorization, HTTP_401_UNAUTHORIZED)
    /\ UNCHANGED <<users, profile, last_write, beside_profiles>>

\* create_user storing the request body instead of its payload
create_user_whole_body(user_data, authorization) ==
    LET user_info == get_user_info(authorization) IN
    IF user_info # None
    THEN LET user_id == The(user_info).user_id IN
         IF "payload" \in DOMAIN user_data
         THEN /\ users' = set_data(user_data, user_id, users)
              /\ profile' = set_data(user_data["payload"], user_id, profile)
              /\ last_write' = set_data(user_data["payload"], user_id, last_write)
              /\ resp' = Response("create_user", authorization, HTTP_200_OK)
              /\ UNCHANGED beside_profiles
         ELSE /\ resp' = Raised("create_user", authorization, "KeyError")
              /\ UNCHANGED <<users, profile, last_write, beside_profiles>>
    ELSE /\ resp' = Response("create_user", authorization, HTTP_401_UNAUTHORIZED)
         /\ UNCHANGED <<users, profile, last_write, beside_profiles>>

create_user(user_data, authorization) ==
    LET user_info == get_user_info(authorization) IN
    IF user_info # None
    THEN LET user_id == The(user_info).user_id IN
         IF "payload" \in DOMAIN user_data
         THEN /\ users' = set_data(user_data["payload"], user_id, users)
              /\ profile' = set_data(user_data["payload"], user_id, profile)
              /\ last_write' = set_data(user_data["payload"], user_id, last_write)
              /\ resp' = Response("create_user", authorization, HTTP_200_OK)
              /\ UNCHANGED beside_profiles
         ELSE /\ resp' = Raised("create_user", authorization, "KeyError")
              /\ UNCHANGED <<users, profile, last_write, beside_profiles>>
    ELSE /\ resp' = Response("create_user", authorization, HTTP_401_UNAUTHORIZED)
         /\ UNCHANGED <<users, profile, last_write, beside_profiles>>

update_user(user_data, authorization) ==
    LET user_info == get_user_info(authorization) IN
    IF user_info # None
    THEN LET user_id == The(user_info).user_id IN
         IF UpdateRaises(user_id, users)
         THEN /\ resp' = Raised("update_user", authorization, "NotFound")
              /\ UNCHANGED <<users, profile, last_write, beside_profiles>>
         ELSE /\ users' = update_data(user_data, user_id, users)
              /\ profile' = [profile EXCEPT ![user_id] = Merge(@, user_data)]
              /\ last_write' = set_data(user_data, user_id, last_write)
              /\ resp' = Response("update_user", authorization, HTTP_200_OK)
              /\ UNCHANGED beside_profiles
    ELSE /\ resp' = Response("update_user", authorization, HTTP_401_UNAUTHORIZED)
         /\ UNCHANGED <<users, profile, last_write, beside_profiles>>

----------------------------------------------------------------------------
(* Preferences: PATCH /api/user/preference/{edition}/{submission_id} *)

Editions == {"2020-1", "2020-2"}
Submissions == {"s1", "s2"}
NoAction == "<absent>"
Actions == {"like", "dislike", "love", NoAction}

\* what a call of the store client can do: return, or raise
Faults == {"ok", "NotFound", "TypeError", "ServiceUnavailable"}
Range(seq) == {seq[i] : i \in DOMAIN seq}

\* the lists that hold each element of S once
Perms(S) ==
    {p \in UNION {[1..n -> S] : n \in {Cardinality(S)}} : Range(p) = S}

\* list(set(l)): the distinct elements of l, in the order the set iterates
list_set(l) == Perms(Range(l))

\* a - b on two lists: list has no subtraction, the expression raises
list_sub(a, b) == [exc |-> "TypeError"]

\* the single-field document {edition: ids}
Doc(edition, ids) == [e \in {edition} |-> ids]

\* like_branch with a record that lacks the edition started afresh
like_branch_fresh(user_preference, edition, submission_id) ==
    IF user_preference = None
    THEN {[kind |-> "set", data |-> Doc(edition, <<submission_id>>)]}
    ELSE IF edition \notin DOMAIN The(user_preference)
    THEN {[kind |-> "set", data |-> Doc(edition, <<submission_id>>)]}
    ELSE LET current_pref == The(user_preference)[edition] IN
         {[kind |-> "update", data |-> Doc(edition, update_pref)] :
             update_pref \in list_set(current_pref \o <<submission_id>>)}

\* lines 274-287: what the "like" branch sets out to do
like_branch(user_preference, edition, submission_id) ==
    IF user_preference = None
    THEN {[kind |-> "set", data |-> Doc(edition, <<submission_id>>)]}
    ELSE IF edition \notin DOMAIN The(user_preference)
    THEN {[kind |-> "raise", exc |-> "KeyError"]}
    ELSE LET current_pref == The(user_preference)[edition] IN
         {[kind |-> "update", data |-> Doc(edition, update_pref)] :
             update_pref \in list_set(current_pref \o <<submission_id>>)}

\* dislike_branch with a missing record taken for an empty one
dislike_branch_norecord(user_preference, edition, submission_id) ==
    IF user_preference = None
    THEN {[kind |-> "set", data |-> Doc(edition, << >>)]}
    ELSE IF edition \notin DOMAIN The(user_preference)
    THEN {[kind |-> "raise", exc |-> "KeyError"]}
    ELSE {[kind |-> "raise", exc |-> "TypeError"]}

\* lines 288-298: what the "dislike" branch sets out to do
dislike_branch(user_preference, edition, submission_id) ==
    IF user_preference = None
    THEN {[kind |-> "return", status |-> HTTP_404_NOT_FOUND]}
    ELSE IF edition \notin DOMAIN The(user_preference)
    THEN {[kind |-> "raise", exc |-> "KeyError"]}
    ELSE LET current_pref == The(user_preference)[edition]
             diff == list_sub(current_pref, <<submission_id>>)
         IN IF "exc" \in DOMAIN diff
            THEN {[kind |-> "raise", exc |-> diff.exc]}
            ELSE {[kind |-> "update", data |-> Doc(edition, update_pref)] :
                     update_pref \in list_set(diff.val)}

\* vote_plan with an absent action taken for a like
vote_plan_default_like(user_preference, edition, submission_id, action) ==
    IF action \in {"like", NoAction}
    THEN like_branch(user_preference, edition, submission_id)
    ELSE IF action = "dislike"
    THEN dislike_branch(user_preference, edition, submission_id)
    ELSE {[kind |-> "return", status |-> HTTP_400_BAD_REQUEST]}

\* lines 274-300: the branch taken on action (user_id is that of a verified
\* token, never None here)
vote_plan(user_preference, edition, submission_id, action) ==
    IF action = "like"
    THEN like_branch(user_preference, edition, submission_id)
    ELSE IF action = "dislike"
    THEN dislike_branch(user_preference, edition, submission_id)
    ELSE {[kind |-> "return", status |-> HTTP_400_BAD_REQUEST]}

\* the response, with the exception raised while the request was handled
\* ("none" when there was none) and the place that raised it
VoteResponse(req, status, raised, raised_at) ==
    [handler |-> "update_user_votes", auth |-> req.auth, status |-> status,
     edition |-> req.edition, submission_id |-> req.submission_id,
     action |-> req.action, raised |-> raised, raised_at |-> raised_at,
     exc |-> IF status = HTTP_500_INTERNAL_SERVER_ERROR THEN raised ELSE "none"]

VoteReturned(req, status) == VoteResponse(req, status, "none", "none")

\* an exception no try block catches leaves the handler
VoteRaised(req, exc, at) ==
    VoteResponse(req, HTTP_500_INTERNAL_SERVER_ERROR, exc, at)

\* Caught without TypeError
Caught_NotFoundOnly == {"NotFound"}

\* the exceptions the try blocks at lines 277-280, 284-287, 295-298 catch
Caught == {"NotFound", "TypeError"}

\* vote_write with the new list added to the list stored at the time of
\* the write, instead of replacing it
vote_write_on_current(plan, req, store, wf) ==
    IF plan.kind = "return"
    THEN [prefs |-> store, resp |-> VoteReturned(req, plan.status)]
    ELSE IF plan.kind = "raise"
    THEN [prefs |-> store, resp |-> VoteRaised(req, plan.exc, "compute")]
    ELSE IF wf \in Caught
    THEN [prefs |-> store,
          resp |-> VoteResponse(req, HTTP_404_NOT_FOUND, wf, "write")]
    ELSE IF wf # "ok"
    THEN [prefs |-> store, resp |-> VoteRaised(req, wf, "write")]
    ELSE LET now == IF req.user_id \in DOMAIN store
                       /\ req.edition \in DOMAIN store[req.user_id]
                    THEN store[req.user_id][req.edition]
                    ELSE << >>
             merged == now \o SelectSeq(plan.data[req.edition],
                                        LAMBDA x : x \notin Range(now))
         IN [prefs |-> IF req.user_id \in DOMAIN store
                       THEN update_data(Doc(req.edition, merged),
                                        req.user_id, store)
                       ELSE set_data(plan.data, req.user_id, store),
             resp |-> VoteReturned(req, HTTP_200_OK)]

\* the write of a plan on the store as it is now, inside its try block:
\* wf is what the client does on this call
vote_write(plan, req, store, wf) ==
    IF plan.kind = "return"
    THEN [prefs |-> store, resp |-> VoteReturned(req, plan.status)]
    ELSE IF plan.kind = "raise"
    THEN [prefs |-> store, resp |-> VoteRaised(req, plan.exc, "compute")]
    ELSE LET raised ==
                 IF wf # "ok" THEN wf
                 ELSE IF plan.kind = "update" /\ UpdateRaises(req.user_id, store)
                 THEN "NotFound"
                 ELSE "ok"
         IN IF raised \in Caught
            THEN [prefs |-> store,
                  resp |-> VoteResponse(req, HTTP_404_NOT_FOUND, raised, "write")]
            ELSE IF raised # "ok"
            THEN [prefs |-> store, resp |-> VoteRaised(req, raised, "write")]
            ELSE [prefs |-> IF plan.kind = "set"
                            THEN set_data(plan.data, req.user_id, store)
                            ELSE update_data(plan.data, req.user_id, store),
                  resp |-> VoteReturned(req, HTTP_200_OK)]

\* lines 272-300 from the preferences read at line 272 to the response
vote_finish(req, store, wf) ==
    {vote_write(plan, req, store, wf) :
        plan \in vote_plan(req.user_preference, req.edition,
                           req.submission_id, req.action)}

VoteRequest(edition, submission_id, action, authorization) ==
    [auth |-> authorization, edition |-> edition,
     submission_id |-> submission_id, action |-> action]

\* the handler, run without another request in between; rf and wf are what
\* the store client does on the read and on the write
update_user_votes(edition, submission_id, action, authorization, rf, wf) ==
    LET user_info == get_user_info(authorization)
        req == VoteRequest(edition, submission_id, action, authorization)
    IN
    /\ UNCHANGED <<inflight, beside_prefs>>
    /\ IF user_info = None
       THEN /\ resp' = VoteReturned(req, HTTP_401_UNAUTHORIZED)
            /\ UNCHANGED prefs
       ELSE LET user_id == The(user_info).user_id IN
            IF rf # "ok"
            THEN /\ resp' = VoteRaised(req, rf, "read")
                 /\ UNCHANGED prefs
            ELSE \E res \in vote_finish(
                     [user_id |-> user_id,
                      user_preference |-> get_data(user_id, prefs)] @@ req,
                     prefs, wf) :
                     /\ prefs' = res.prefs
                     /\ resp' = res.resp

\* The handler as two steps, for requests that overlap: begin_vote runs it
\* to the read of the preferences (line 272), finish_vote from there to the
\* response.  A request id is used once.
Requests == 1..MaxRequests

begin_vote(r, edition, submission_id, action, authorization) ==
    LET user_info == get_user_info(authorization)
        req == VoteRequest(edition, submission_id, action, authorization)
    IN
    /\ r \notin DOMAIN inflight
    /\ UNCHANGED <<prefs, beside_prefs>>
    /\ IF user_info = None
       THEN /\ resp' = VoteReturned(req, HTTP_401_UNAUTHORIZED)
            /\ inflight' = (r :> [pc |-> "done", resp |-> resp']) @@ inflight
       ELSE LET user_id == The(user_info).user_id IN
            /\ inflight' =
                 (r :> ([pc |-> "read", user_id |-> user_id,
                         user_preference |-> get_data(user_id, prefs)] @@ req))
                 @@ inflight
            /\ UNCHANGED resp

finish_vote(r) ==
    /\ r \in DOMAIN inflight
    /\ inflight[r].pc = "read"
    /\ \E res \in vote_finish(inflight[r], prefs, "ok") :
           /\ prefs' = res.prefs
           /\ resp' = res.resp
           /\ inflight' = [inflight EXCEPT ![r] =
                  [pc |-> "done", user_id |-> @.user_id,
                   user_preference |-> @.user_preference, resp |-> res.resp]]
    /\ UNCHANGED beside_prefs

----------------------------------------------------------------------------
(* Abstract listing: GET /api/abstract/{edition} *)

Min(a, b) == IF a < b THEN a ELSE b
Max(a, b) == IF a > b THEN a ELSE b
Abs(a) == IF a < 0 THEN -a ELSE a

\* a // b, rounding down: what int(a / b) would be with floor division
int_div_floor(a, b) ==
    IF b > 0 THEN a \div b ELSE (-a) \div (-b)

\* int(a / b) for b # 0: the quotient, rounded toward zero
int_div(a, b) ==
    IF (a >= 0) = (b > 0)
    THEN Abs(a) \div Abs(b)
    ELSE -(Abs(a) \div Abs(b))

\* seq[start:stop] with the end of seq taken for the last index
py_slice_clamped(seq, start, stop) ==
    LET n == Len(seq)
        lo == IF start < 0 THEN Max(n + start, 0) ELSE Min(start, Max(n - 1, 0))
        hi == IF stop < 0 THEN Max(n + stop, 0) ELSE Min(stop, n)
    IN IF lo < hi THEN SubSeq(seq, lo + 1, hi) ELSE << >>

\* seq[start:stop]: negative indices count from the end, both are clamped
\* to the sequence
py_slice(seq, start, stop) ==
    LET n == Len(seq)
        lo == IF start < 0 THEN Max(n + start, 0) ELSE Min(start, n)
        hi == IF stop < 0 THEN Max(n + stop, 0) ELSE Min(stop, n)
    IN IF lo < hi THEN SubSeq(seq, lo + 1, hi) ELSE << >>

\* the abstracts of the search index "agenda-{edition}": the first edition
\* holds NumIndexed of them, the second none
IndexedIds == <<"s1", "s2", "s3", "s4", "s5">>

Index(edition) ==
    IF edition = "2020-1"
    THEN [i \in 1..Min(NumIndexed, Len(IndexedIds)) |->
             [submission_id |-> IndexedIds[i],
              matches |-> (i % 2 = 1),      \* found by the query string
              scheduled |-> (i <= 2)]]      \* inside the time window
    ELSE << >>

Queries == {None, Some("brain")}
StartTimes == {None, Some("2020-10-26 10:00")}
EndTimes == {None, Some("2020-10-26 18:00")}
Views == {Some("default"), Some("your-votes"), Some("recommendations"),
          Some("personalized"), Some("agenda"), None}

\* utils.convert_utc: the time in UTC format
convert_utc(t) ==
    CASE t = "2020-10-26 10:00" -> "2020-10-26T10:00:00+00:00"
      [] t = "2020-10-26 18:00" -> "2020-10-26T18:00:00+00:00"

\* utils.query_abstracts: the abstracts of the index the query finds, all of
\* them without a query
query_abstracts(q, edition) ==
    IF q = None THEN Index(edition)
    ELSE SelectSeq(Index(edition), LAMBDA a : a.matches)

\* utils.filter_startend_time: the abstracts inside the window, all of them
\* unless both ends are given
filter_startend_time(submissions, starttime, endtime) ==
    IF starttime # None /\ endtime # None
    THEN SelectSeq(submissions, LAMBDA a : a.scheduled)
    ELSE submissions

\* utils.get_abstract: the abstract of the index with that id
get_abstract(edition, id) ==
    LET found == SelectSeq(Index(edition), LAMBDA a : a.submission_id = id)
    IN IF found = << >> THEN None ELSE Some(found[1])

\* utils.generate_recommendations, utils.generate_personalized_recommendations:
\* the corpus ranked by similarity to the voted abstracts (the neighbour
\* index ranks all of it); the voted ones themselves are left out
generate_recommendations(submission_ids, edition) ==
    SelectSeq(Index(edition),
              LAMBDA a : a.submission_id \notin Range(submission_ids))

\* lines 303-315: the endpoint with the parameters that are not None
query_params_builder(base_endpoint, kvs) ==
    [endpoint |-> base_endpoint,
     params |-> SelectSeq(kvs, LAMBDA kv : kv[2] # None)]

Meta(current_page, n_page, page_size) ==
    [currentPage |-> current_page, totalPage |-> n_page,
     pageSize |-> page_size]

\* lines 362-370: the votes the listing works with
listing_preference(authorization) ==
    LET user_info == get_user_info(authorization) IN
    IF user_info = None THEN << >>                 \* AttributeError, caught
    ELSE LET doc == get_data(The(user_info).user_id, prefs) IN
         IF doc = None THEN << >>                  \* AttributeError, caught
         ELSE IF "edition" \in DOMAIN The(doc)
         THEN The(doc)["edition"]
         ELSE << >>

\* lines 435-441, 472-483, 518-527: the list a personal view pages through
view_submissions(view, edition, user_preference, starttime, endtime) ==
    IF view = Some("your-votes")
    THEN [i \in DOMAIN user_preference |->
             get_abstract(edition, user_preference[i])]
    ELSE filter_startend_time(
             generate_recommendations(user_preference, edition),
             starttime, endtime)

get_abstracts(edition, q, view, starttime, endtime, skip, limit, authorization) ==
    LET user_preference == listing_preference(authorization)
        request == [handler |-> "get_abstracts", auth |-> authorization,
                    edition |-> edition, q |-> q, view |-> view,
                    starttime |-> starttime, endtime |-> endtime,
                    skip |-> skip, limit |-> limit]
        n_submissions == Len(Index(edition))
        page_size == limit
    IN
    /\ UNCHANGED <<users, prefs, profile, last_write, inflight, table, outbox, offline>>
    /\ IF page_size = 0
       THEN resp' = [status |-> HTTP_500_INTERNAL_SERVER_ERROR,
                     exc |-> "ZeroDivisionError"] @@ request
       ELSE
       LET current_page == int_div(skip, page_size) + 1
           n_page == int_div(n_submissions, page_size) + 1
           start == IF starttime # None /\ endtime # None
                    THEN Some(convert_utc(The(starttime))) ELSE starttime
           end == IF starttime # None /\ endtime # None
                  THEN Some(convert_utc(The(endtime))) ELSE endtime
           base == <<"/api/abstract/", edition>>
           ok == [status |-> HTTP_200_OK] @@ request
       IN
       IF current_page > n_page
       THEN resp' = [meta |-> Meta(current_page, n_page, page_size),
                     data |-> << >>] @@ ok
       ELSE IF view = Some("default")
       THEN LET submissions ==
                    filter_startend_time(query_abstracts(q, edition),
                                         start, end)
            IN resp' =
                 [meta |-> Meta(current_page, n_page, page_size),
                  links |->
                    [current |-> query_params_builder(base,
                        <<(<<"view", view>>), <<"query", q>>,
                          <<"starttime", start>>, <<"endtime", end>>,
                          <<"skip", Some(skip)>>,
                          <<"limit", Some(page_size)>> >>),
                     next |-> query_params_builder(base,
                        <<(<<"view", view>>), <<"query", q>>,
                          <<"starttime", start>>, <<"endtime", end>>,
                          <<"skip", Some(skip + page_size)>>,
                          <<"limit", Some(page_size)>> >>)],
                  data |-> py_slice(submissions, skip, skip + limit)] @@ ok
       ELSE IF view \in {Some("your-votes"), Some("recommendations"),
                         Some("personalized")}
       THEN LET submissions ==
                    view_submissions(view, edition, user_preference,
                                     start, end)
                times == IF view = Some("your-votes") THEN << >>
                         ELSE <<(<<"starttime", start>>),
                                <<"endtime", end>> >>
            IN resp' =
                 [meta |-> Meta(int_div(skip, page_size) + 1,
                                int_div(Len(submissions), page_size) + 1,
                                page_size),
                  links |->
                    [current |-> query_params_builder(base,
                        <<(<<"view", view>>)>> \o times \o
                        <<(<<"skip", Some(skip)>>),
                          <<"limit", Some(page_size)>> >>),
                     next |-> query_params_builder(base,
                        <<(<<"view", view>>)>> \o times \o
                        <<(<<"skip", Some(skip + page_size)>>),
                          <<"limit", Some(page_size)>> >>)],
                  data |-> IF Len(submissions) > 0
                           THEN py_slice(submissions, skip, skip + limit)
                           ELSE << >>] @@ ok
       ELSE resp' =
                 [meta |-> Meta(current_page, n_page, page_size),
                  links |->
                    [current |-> query_params_builder(base,
                        <<(<<"view", Some("default")>>),
                          <<"skip", Some(skip)>>,
                          <<"limit", Some(page_size)>> >>),
                     next |-> query_params_builder(base,
                        <<(<<"view", Some("default")>>),
                          <<"skip", Some(skip + page_size)>>,
                          <<"limit", Some(page_size)>> >>)],
                  data |-> << >>] @@ ok

----------------------------------------------------------------------------
(* Preference listings, confirmation email, abstract submission *)

\* lines 204-225: GET /api/user/preference/
get_user_votes_all(authorization) ==
    LET user_info == get_user_info(authorization) IN
    /\ UNCHANGED <<prefs, inflight, beside_prefs>>
    /\ IF user_info # None
       THEN LET user_preference ==
                    get_data(The(user_info).user_id, prefs)
            IN resp' =
                 [handler |-> "get_user_votes_all", auth |-> authorization,
                  status |-> HTTP_200_OK,
                  data |-> IF user_preference # None
                           THEN {[edition |-> k,
                                  abstracts |->
                                    [i \in DOMAIN The(user_preference)[k] |->
                                       get_abstract(k, The(user_preference)[k][i])]] :
                                 k \in DOMAIN The(user_preference)}
                           ELSE {}]
       ELSE resp' = Response("get_user_votes_all", authorization,
                             HTTP_401_UNAUTHORIZED)

\* lines 228-250: GET /api/user/preference/{edition}
get_user_votes(edition, authorization) ==
    LET user_info == get_user_info(authorization) IN
    /\ UNCHANGED <<prefs, inflight, beside_prefs>>
    /\ IF user_info # None
       THEN LET user_preference ==
                    get_data(The(user_info).user_id, prefs)
            IN IF user_preference = None
               THEN resp' = [handler |-> "get_user_votes",
                             auth |-> authorization, status |-> HTTP_200_OK,
                             edition |-> edition, data |-> << >>]
               ELSE IF edition \notin DOMAIN The(user_preference)
               THEN resp' = [edition |-> edition] @@
                            Raised("get_user_votes", authorization, "KeyError")
               ELSE LET ids == The(user_preference)[edition] IN
                    resp' = [handler |-> "get_user_votes",
                             auth |-> authorization, status |-> HTTP_200_OK,
                             edition |-> edition,
                             data |-> [i \in DOMAIN ids |->
                                          get_abstract(edition, ids[i])]]
       ELSE resp' = [edition |-> edition] @@
                    Response("get_user_votes", authorization,
                             HTTP_401_UNAUTHORIZED)

\* line 18: the mail service key; the default stands in when none is set
SENDGRID_API == "You did not specify Sendgrid API"

\* the templates of sitedata/email-content.json (docstring, line 128)
EmailTemplates == {"registration", "submission", "mindmatch"}
EmailTypes == {"registration", "invitation"}
\* the status codes the mail service answers a send with
MailStatuses == {202, 400}

\* lines 119-143: POST /api/confirmation/{email_type}
send_confirmation_email(email_type, authorization, mail_status) ==
    /\ UNCHANGED <<users, prefs, profile, last_write, inflight, table, listing, offline>>
    /\ IF SENDGRID_API # ""
       THEN LET user_info == get_user_info(authorization) IN
            IF user_info = None
            THEN \* None has no .get
                 /\ resp' = Raised("send_confirmation_email", authorization,
                                   "AttributeError")
                 /\ UNCHANGED outbox
            ELSE IF email_type \notin EmailTemplates
            THEN \* data is None: data["personalizations"] raises
                 /\ resp' = Raised("send_confirmation_email", authorization,
                                   "TypeError")
                 /\ UNCHANGED outbox
            ELSE /\ outbox' = outbox \cup
                       {[to |-> The(user_info).email, template |-> email_type]}
                 /\ resp' = Response("send_confirmation_email", authorization,
                                     mail_status)
       ELSE /\ resp' = Response("send_confirmation_email", authorization,
                                HTTP_200_OK)
            /\ UNCHANGED outbox

\* scripts/es_config.yml: the first edition is kept in a table store, the
\* second only in a CSV file
airtable_id(edition) ==
    IF edition = "2020-1" THEN Some("app-2020-1") ELSE None

\* the time texts pd.to_datetime can parse; it raises on any other text
Parsable == {"2020-10-26 10:00", "2020-10-26 18:00"}

\* str(pd.to_datetime(t)) for a text it parses
to_datetime(t) ==
    CASE t = "2020-10-26 10:00" -> "2020-10-26 10:00:00"
      [] t = "2020-10-26 18:00" -> "2020-10-26 18:00:00"

\* the submissions a client can send (the other fields of Submission, lines
\* 87-101, are carried along like title); a time is any text
SubmissionBodies ==
    [title : {"A talk"},
     starttime : StartTimes \cup {Some("after lunch")},
     endtime : EndTimes]

\* lines 618-654: POST /api/abstract/{edition}
create_abstract(submission, edition, authorization) ==
    LET user_info == get_user_info(authorization)
        timed == submission.starttime \notin {Some(""), None}
                 /\ submission.endtime \notin {Some(""), None}
        base_id == airtable_id(edition)
        request == [handler |-> "create_abstract", auth |-> authorization,
                    edition |-> edition]
    IN
    /\ UNCHANGED <<prefs, inflight, outbox, listing, offline>>
    /\ IF timed /\ ~({The(submission.starttime), The(submission.endtime)}
                       \subseteq Parsable)
       THEN \* lines 632-633: pd.to_datetime raises, before base_id is read
            /\ resp' = [status |-> HTTP_500_INTERNAL_SERVER_ERROR,
                        exc |-> "ValueError"] @@ request
            /\ UNCHANGED <<users, profile, last_write, table>>
       ELSE
       LET record == IF timed
                     THEN [submission EXCEPT
                             !.starttime = Some(to_datetime(The(@))),
                             !.endtime = Some(to_datetime(The(@)))]
                     ELSE submission
       IN
       IF base_id = None
       THEN /\ resp' = [status |-> HTTP_400_BAD_REQUEST] @@ request
            /\ UNCHANGED <<users, profile, last_write, table>>
       ELSE /\ Len(table) < MaxRecords
            /\ table' = Append(table, [edition |-> edition] @@ record)
            /\ LET id == Len(table) + 1 IN
               IF user_info # None
               THEN LET user_id == The(user_info).user_id
                        data == [submission_id |-> id]
                    IN IF UpdateRaises(user_id, users)
                       THEN /\ resp' = [status |-> HTTP_500_INTERNAL_SERVER_ERROR,
                                        exc |-> "NotFound"] @@ request
                            /\ UNCHANGED <<users, profile, last_write>>
                       ELSE /\ users' = update_data(data, user_id, users)
                            /\ profile' = [profile EXCEPT
                                             ![user_id] = Merge(@, data)]
                            /\ last_write' = set_data(data, user_id, last_write)
                            /\ resp' = [status |-> HTTP_200_OK] @@ request
               ELSE /\ resp' = [status |-> HTTP_401_UNAUTHORIZED] @@ request
                    /\ UNCHANGED <<users, profile, last_write>>

\* lines 657-672: PUT /api/abstract/{edition}/{submission_id}; the table
\* store merges the fields into the record, and refuses an id it does not
\* hold
update_abstract(submission_id, submission, edition) ==
    LET base_id == airtable_id(edition)
        request == [handler |-> "update_abstract", auth |-> NoAuth,
                    edition |-> edition, submission_id |-> submission_id]
    IN
    /\ UNCHANGED <<users, prefs, profile, last_write, inflight, outbox, listing, offline>>
    /\ IF base_id = None
       THEN /\ resp' = [status |-> HTTP_400_BAD_REQUEST] @@ request
            /\ UNCHANGED table
       ELSE IF submission_id \notin DOMAIN table
       THEN /\ resp' = [status |-> HTTP_500_INTERNAL_SERVER_ERROR,
                        exc |-> "HTTPError"] @@ request
            /\ UNCHANGED table
       ELSE /\ table' = [table EXCEPT ![submission_id] = Merge(@, submission)]
            /\ resp' = [status |-> HTTP_200_OK] @@ request

----------------------------------------------------------------------------
(* The embedding script: src/scripts/embeddings.py *)

\* line 48: TruncatedSVD(n_components=30, algorithm='arpack')
n_components == 30

\* A dataframe is known by its number of rows; its submission ids are
\* 1..df, and its texts are taken to have a vocabulary that passes the
\* vectoriser's min_df and max_df and is larger than n_components whenever
\* it has more rows than that.
Dataframes == {0, 1} \cup (n_components .. MaxRows)

Options == {"lsa", "sent_embed", "tfidf"}

Returns(value) == [returns |-> value]
Raises(exc) == [exc |-> exc]
HasRaised(outcome) == "exc" \in DOMAIN outcome

\* lines 35-38 and 52-55: one entry per row
paper_embeddings(df) ==
    [pid \in 1..df |-> [submission_id |-> pid, embedding |-> "vector"]]

\* calculate_embeddings with an unrecognised option raising instead
calculate_embeddings_strict(df, option) ==
    IF option = "sent_embed"
    THEN IF df = 0
         THEN {Returns(Some(<< >>)), Raises("RuntimeError")}
         ELSE {Returns(Some(paper_embeddings(df)))}
    ELSE IF option = "lsa"
    THEN IF df <= n_components
         THEN {Raises("ValueError")}
         ELSE {Returns(Some(paper_embeddings(df)))}
    ELSE {Raises("ValueError")}

\* lines 26-59: the outcomes of calculate_embeddings(df, option).  The
\* sentence encoder, given no text, returns an empty tensor or fails to
\* stack one, by its version.  The vectoriser raises on a table without
\* vocabulary (an empty one has none), and the arpack decomposition on one
\* that has no more rows than n_components.
calculate_embeddings(df, option) ==
    IF option = "sent_embed"
    THEN IF df = 0
         THEN {Returns(Some(<< >>)), Raises("RuntimeError")}
         ELSE {Returns(Some(paper_embeddings(df)))}
    ELSE IF option = "lsa"
    THEN IF df <= n_components
         THEN {Raises("ValueError")}
         ELSE {Returns(Some(paper_embeddings(df)))}
    ELSE {Returns(None)}

NoCall == [pc |-> "idle"]

\* a call of calculate_embeddings that is waiting in `embed` returns or raises
call_embeddings ==
    /\ embed.pc = "called"
    /\ \E outcome \in calculate_embeddings(embed.df, embed.option) :
          embed' = [pc |-> "done", df |-> embed.df, option |-> embed.option,
                    outcome |-> outcome]
    /\ UNCHANGED <<users, prefs, profile, last_write, inflight, table, outbox,
                   listing, batch, resp>>

\* todo: the tables of the input files not yet processed; written: for each
\* file reached, what was saved for it; exc: what ended the run early
NoRun == [todo |-> << >>, written |-> << >>, exc |-> None]

\* lines 68-85: the body of the loop of __main__ for the next input file;
\* nothing catches what it raises
embed_path ==
    /\ batch.exc = None
    /\ batch.todo # << >>
    /\ LET df == Head(batch.todo) IN
       \E outcome \in calculate_embeddings(df, "lsa") :
          IF HasRaised(outcome)
          THEN batch' = [batch EXCEPT !.exc = Some(outcome.exc)]
          ELSE \* line 80: json.dump; line 83: np.vstack over the entries
               IF outcome.returns = None
               THEN batch' = [batch EXCEPT
                                !.written = Append(@, [df |-> df, json |-> TRUE,
                                                       joblib |-> FALSE]),
                                !.exc = Some("TypeError")]
               ELSE IF The(outcome.returns) = << >>
               THEN batch' = [batch EXCEPT
                                !.written = Append(@, [df |-> df, json |-> TRUE,
                                                       joblib |-> FALSE]),
                                !.exc = Some("ValueError")]
               ELSE batch' = [batch EXCEPT
                                !.written = Append(@, [df |-> df, json |-> TRUE,
                                                       joblib |-> TRUE]),
                                !.todo = Tail(@)]
    /\ UNCHANGED <<users, prefs, profile, last_write, inflight, table, outbox,
                   listing, embed, resp>>

----------------------------------------------------------------------------
(* Properties of the abstract listing *)

IsListing(r) == r.handler = "get_abstracts"

\* floor(a / b) for b # 0, from its definition
Floor(a, b) ==
    CHOOSE k \in -(Abs(a) + 1)..(Abs(a) + 1) :
        IF b > 0 THEN k * b <= a /\ a < (k + 1) * b
                 ELSE k * b >= a /\ a > (k + 1) * b

\* C4 as claimed: for every skip and every limit other than 0, in every
\* view, meta.currentPage is floor(skip/limit)+1 and meta.pageSize is limit.
C4_CurrentPageIsFloor ==
    (IsListing(resp) /\ resp.limit # 0)
    => /\ resp.status = HTTP_200_OK
       /\ resp.meta.currentPage = Floor(resp.skip, resp.limit) + 1
       /\ resp.meta.pageSize = resp.limit

\* C4: for every skip and every limit other than 0, in every view,
\* meta.pageSize is limit and meta.currentPage is q+1 with q the quotient
\* skip/limit rounded toward zero: |q|*|limit| <= |skip| < (|q|+1)*|limit|,
\* q negative only when skip and limit differ in sign.  This is
\* floor(skip/limit)+1 when skip >= 0 and limit >= 1.
C4_CurrentPageIsTruncation ==
    (IsListing(resp) /\ resp.limit # 0)
    => LET k == resp.meta.currentPage - 1 IN
       /\ resp.status = HTTP_200_OK
       /\ resp.meta.pageSize = resp.limit
       /\ Abs(k) * Abs(resp.limit) <= Abs(resp.skip)
       /\ Abs(resp.skip) < (Abs(k) + 1) * Abs(resp.limit)
       /\ k > 0 => ((resp.skip > 0) = (resp.limit > 0))
       /\ k < 0 => ((resp.skip > 0) # (resp.limit > 0))
       /\ (resp.skip >= 0 /\ resp.limit >= 1)
             => k = Floor(resp.skip, resp.limit)

\* C4 witness: a personal view has been served for a negative skip that is
\* no multiple of the limit.
C4_Witness ==
    /\ IsListing(resp) /\ resp.status = HTTP_200_OK
    /\ resp.view = Some("your-votes")
    /\ resp.skip < 0 /\ resp.limit > 1 /\ resp.skip % resp.limit # 0
    /\ resp.meta.currentPage = 1 - (Abs(resp.skip) \div resp.limit)

\* the number of submissions a request's view has to page through
ViewTotal(r) ==
    LET both == r.starttime # None /\ r.endtime # None
        start == IF both THEN Some(convert_utc(The(r.starttime)))
                 ELSE r.starttime
        end == IF both THEN Some(convert_utc(The(r.endtime))) ELSE r.endtime
    IN IF r.view = Some("default")
       THEN Len(filter_startend_time(query_abstracts(r.q, r.edition),
                                     start, end))
       ELSE IF r.view \in {Some("your-votes"), Some("recommendations"),
                           Some("personalized")}
       THEN Len(view_submissions(r.view, r.edition,
                                 listing_preference(r.auth), start, end))
       ELSE Len(Index(r.edition))

----------------------------------------------------------------------------
(* Properties of the profile handlers *)

\* C2 as claimed: get_user returns exactly the document most recently
\* written for the identity by create_user or update_user.
C2_ReturnsLastWritten ==
    (/\ resp.handler = "get_user" /\ resp.status = HTTP_200_OK
     /\ UserOf(resp.auth) \in DOMAIN last_write)
    => resp.data = last_write[UserOf(resp.auth)]

\* C2: get_user with a valid identity returns the document the identity's
\* writes define: the payload of the last create_user with the bodies of the
\* later update_user calls merged over it field by field (update_user is
\* refused with NotFound while there is no document); {} when there is none.
C2_ReturnsStoredProfile ==
    (resp.handler = "get_user" /\ Valid(resp.auth))
    => /\ resp.status = HTTP_200_OK
       /\ resp.data = IF UserOf(resp.auth) \in DOMAIN profile
                      THEN profile[UserOf(resp.auth)]
                      ELSE EmptyDoc

\* C2 witness: get_user has answered for an identity whose profile was
\* created and then updated, while the other identity holds another profile.
C2_Witness ==
    /\ resp.handler = "get_user" /\ Valid(resp.auth)
    /\ LET user_id == UserOf(resp.auth) IN
       /\ user_id \in DOMAIN profile
       /\ last_write[user_id] # profile[user_id]
       /\ resp.data = profile[user_id]
       /\ \E other \in DOMAIN profile :
             other # user_id /\ profile[other] # profile[user_id]

----------------------------------------------------------------------------
(* Properties of the preference handlers *)

IsVote(r) == r.handler = "update_user_votes"

\* the stored preference set of user_id for an edition
StoredIn(store, user_id, edition) ==
    IF user_id \in DOMAIN store /\ edition \in DOMAIN store[user_id]
    THEN Range(store[user_id][edition])
    ELSE {}

SameVote(r1, r2) ==
    /\ r1.auth = r2.auth
    /\ r1.edition = r2.edition
    /\ r1.submission_id = r2.submission_id

\* C1: a dislike of X that follows a like of X by the same user for the same
\* edition completes without an error and leaves X out of the stored set;
\* a further dislike of X completes the same way and changes nothing.
C1_DislikeAfterLikeRemoves ==
    [][ /\ (/\ IsVote(resp) /\ IsVote(resp') /\ Valid(resp.auth)
            /\ SameVote(resp, resp')
            /\ resp.action = "like" /\ resp.status = HTTP_200_OK
            /\ resp'.action = "dislike")
           => /\ resp'.status = HTTP_200_OK
              /\ resp'.submission_id \notin
                    StoredIn(prefs', UserOf(resp'.auth), resp'.edition)
        /\ (/\ IsVote(resp) /\ IsVote(resp') /\ Valid(resp.auth)
            /\ SameVote(resp, resp')
            /\ resp.action = "dislike" /\ resp.status = HTTP_200_OK
            /\ resp'.action = "dislike")
           => /\ resp'.status = HTTP_200_OK
              /\ prefs' = prefs ]_vars

\* C7: a like by a valid user completes without an error, whatever the
\* user's preference record was, and the stored set for the edition then
\* holds the submission and all it held before.
C7_LikeAlwaysAdds ==
    [][ (IsVote(resp') /\ Valid(resp'.auth) /\ resp'.action = "like")
        => LET user_id == UserOf(resp'.auth) IN
           /\ resp'.status = HTTP_200_OK
           /\ resp'.submission_id \in StoredIn(prefs', user_id, resp'.edition)
           /\ StoredIn(prefs, user_id, resp'.edition)
                 \subseteq StoredIn(prefs', user_id, resp'.edition) ]_vars

\* C8: a dislike by a valid user that has no stored preference record is
\* answered 404 and writes nothing to the preference store.
C8_DislikeWithoutRecord ==
    [][ (/\ IsVote(resp') /\ Valid(resp'.auth) /\ resp'.action = "dislike"
         /\ UserOf(resp'.auth) \notin DOMAIN prefs)
        => (resp'.status = HTTP_404_NOT_FOUND /\ prefs' = prefs) ]_vars

\* C8 witness: such a dislike has been answered, for a user without a
\* record, while another user has one.
C8_Witness ==
    /\ IsVote(resp) /\ Valid(resp.auth) /\ resp.action = "dislike"
    /\ resp.status = HTTP_404_NOT_FOUND
    /\ UserOf(resp.auth) \notin DOMAIN prefs
    /\ DOMAIN prefs # {}

\* C10: an action that is neither "like" nor "dislike" (an absent one
\* included) is answered 400 for a valid user, and no stored preference
\* changes.
C10_BadAction ==
    [][ (/\ IsVote(resp') /\ Valid(resp'.auth)
         /\ resp'.action \notin {"like", "dislike"})
        => (resp'.status = HTTP_400_BAD_REQUEST /\ prefs' = prefs) ]_vars

\* C10 witness: a request without an action has been answered 400 for a
\* user whose record holds a vote.
C10_Witness ==
    /\ IsVote(resp) /\ Valid(resp.auth) /\ resp.action = NoAction
    /\ resp.status = HTTP_400_BAD_REQUEST
    /\ StoredIn(prefs, UserOf(resp.auth), resp.edition) # {}

\* C9 as claimed: whenever NotFound or TypeError is raised while a like or
\* a dislike of a valid user is handled (at the read, in the computation of
\* the new set or at the write), the response is 404.
C9_AnyRaiseIs404 ==
    (/\ IsVote(resp) /\ Valid(resp.auth) /\ resp.action \in {"like", "dislike"}
     /\ resp.raised \in {"NotFound", "TypeError"})
    => resp.status = HTTP_404_NOT_FOUND

\* C9: NotFound or TypeError raised by the write (set_data, update_data) of
\* a like or a dislike of a valid user is answered 404; raised at the read
\* of the preferences or in the computation of the new set it is not caught
\* and leaves the handler.
C9_WriteRaiseIs404 ==
    (/\ IsVote(resp) /\ Valid(resp.auth) /\ resp.action \in {"like", "dislike"}
     /\ resp.raised \in {"NotFound", "TypeError"})
    => IF resp.raised_at = "write"
       THEN resp.status = HTTP_404_NOT_FOUND /\ resp.exc = "none"
       ELSE resp.status = HTTP_500_INTERNAL_SERVER_ERROR
            /\ resp.exc = resp.raised

\* C9 witness: a write that raised TypeError has been answered 404.
C9_Witness ==
    /\ IsVote(resp) /\ Valid(resp.auth) /\ resp.action = "like"
    /\ resp.raised = "TypeError" /\ resp.raised_at = "write"
    /\ resp.status = HTTP_404_NOT_FOUND

\* a request that has completed a like without an error
Liked(x) ==
    /\ x.pc = "done" /\ "user_id" \in DOMAIN x
    /\ x.resp.action = "like" /\ x.resp.status = HTTP_200_OK

\* the set a request read at line 272 for its edition
ReadSet(x) ==
    IF x.user_preference # None /\ x.edition \in DOMAIN The(x.user_preference)
    THEN Range(The(x.user_preference)[x.edition])
    ELSE {}

\* C3: the write of a like replaces the stored set by the one computed from
\* the request's own read: when a like of the same user and edition
\* completes whose read did not hold the submission another completed like
\* added, that submission is lost from the stored set.
C3_StaleReadLosesUpdate ==
    [][ \A r1 \in DOMAIN inflight, r2 \in DOMAIN inflight :
          (/\ r1 # r2
           /\ Liked(inflight[r1])
           /\ inflight[r2].pc = "read" /\ Liked(inflight'[r2])
           /\ inflight[r1].user_id = inflight[r2].user_id
           /\ inflight[r1].resp.edition = inflight[r2].edition
           /\ inflight[r1].resp.submission_id # inflight[r2].submission_id
           /\ inflight[r1].resp.submission_id \notin ReadSet(inflight[r2]))
          => inflight[r1].resp.submission_id \notin
                StoredIn(prefs', inflight[r2].user_id, inflight[r2].edition)
      ]_vars

\* C3 witness: two likes of one user for one edition have both completed
\* without an error and the stored set lacks the submission one of them
\* liked.
C3_Witness ==
    \E r1 \in DOMAIN inflight, r2 \in DOMAIN inflight :
        /\ r1 # r2
        /\ Liked(inflight[r1]) /\ Liked(inflight[r2])
        /\ inflight[r1].user_id = inflight[r2].user_id
        /\ inflight[r1].resp.edition = inflight[r2].resp.edition
        /\ inflight[r1].resp.submission_id # inflight[r2].resp.submission_id
        /\ inflight[r1].resp.submission_id \notin
              StoredIn(prefs, inflight[r1].user_id, inflight[r1].resp.edition)
        /\ inflight[r2].resp.submission_id \in
              StoredIn(prefs, inflight[r1].user_id, inflight[r1].resp.edition)

----------------------------------------------------------------------------
(* Properties of the abstract submission *)

\* C11: create_abstract and update_abstract on an edition whose
\* configuration has no airtable_id are answered 400 and change nothing: no
\* submission record is created or updated, no user profile is modified.
C11_NoTableStoreIs400 ==
    [][ (/\ resp'.handler \in {"create_abstract", "update_abstract"}
         /\ airtable_id(resp'.edition) = None)
        => /\ resp'.status = HTTP_400_BAD_REQUEST
           /\ table' = table
           /\ users' = users ]_vars

\* C13: create_abstract writes nothing for a caller that is not
\* authenticated: when it answers 401, no submission record has been created
\* and no user profile has been modified.
C13_Unauthenticated401WritesNothing ==
    [][ (/\ resp'.handler = "create_abstract"
         /\ resp'.status = HTTP_401_UNAUTHORIZED)
        => (table' = table /\ users' = users) ]_vars

----------------------------------------------------------------------------
(* Properties of the embedding script *)

\* the input file at which the run of the script ended early
Aborted == batch.exc # None
AbortedAt == Head(batch.todo)

\* C12 (as claimed): calculate_embeddings on an empty dataframe, or with an
\* option other than "lsa" and "sent_embed", returns an empty or None result
\* and raises nothing; and the script finishes the run for such an input
\* file without aborting.
C12_EmptyOrUnknownNeverRaises ==
    /\ (/\ embed.pc = "done"
        /\ (embed.df = 0 \/ embed.option \notin {"lsa", "sent_embed"}))
       => /\ ~HasRaised(embed.outcome)
          /\ embed.outcome.returns \in {None, Some(<< >>)}
    /\ Aborted => AbortedAt # 0

\* C12 (amended): with an option other than "lsa" and "sent_embed"
\* calculate_embeddings returns None and raises nothing, for every dataframe,
\* the empty one included; with option "lsa" on an empty dataframe it raises;
\* and the script, which always uses "lsa", ends the run at an empty input
\* file with nothing saved for it.
C12_UnknownOptionIsNone ==
    [][ /\ (embed'.pc = "done" /\ embed'.option \notin {"lsa", "sent_embed"})
           => embed'.outcome = Returns(None)
        /\ (embed'.pc = "done" /\ embed'.option = "lsa" /\ embed'.df = 0)
           => HasRaised(embed'.outcome)
        /\ (batch' # batch /\ Head(batch.todo) = 0)
           => /\ batch'.exc # None
              /\ batch'.written = batch.written
              /\ batch'.todo = batch.todo ]_vars

C12_Witness ==
    /\ embed.pc = "done"
    /\ embed.option = "tfidf"
    /\ embed.df = 0
    /\ Aborted
    /\ AbortedAt = 0
    /\ Len(batch.written) >= 1

----------------------------------------------------------------------------
(* Properties of the your-votes view *)

\* the list update_user_votes has stored for a user and an edition
StoredList(user_id, edition) ==
    IF user_id \in DOMAIN prefs /\ edition \in DOMAIN prefs[user_id]
    THEN prefs[user_id][edition]
    ELSE << >>

----------------------------------------------------------------------------
(* Frame of update_user_votes *)

\* the step completes request r from its read to its response
Finishing(r) ==
    /\ r \in DOMAIN inflight
    /\ inflight[r].pc = "read"
    /\ inflight'[r].pc = "done"

\* the preference sets of a user for the editions other than one are the
\* same before and after the step
OtherEditionsKept(user_id, edition) ==
    \A e \in Editions \ {edition} :
        StoredIn(prefs', user_id, e) = StoredIn(prefs, user_id, e)

OtherUsersKept(user_id) ==
    \A u \in Users \ {user_id} : get_data(u, prefs') = get_data(u, prefs)

----------------------------------------------------------------------------
(* Properties of the handlers' authentication *)

\* the handlers that take the bearer credential
BearerHandlers ==
    {"send_confirmation_email", "get_user", "create_user", "update_user",
     "get_user_votes_all", "get_user_votes", "update_user_votes",
     "get_abstracts", "create_abstract"}

\* C6: every handler that takes the bearer credential answers 401 whenever
\* the identity is missing or invalid (get_user_info returns None).
C6_UnauthenticatedIs401 ==
    (resp.handler \in BearerHandlers /\ ~Valid(resp.auth))
    => resp.status = HTTP_401_UNAUTHORIZED

----------------------------------------------------------------------------
(* Specifications *)

NoResponse == [handler |-> "none", auth |-> NoAuth, status |-> HTTP_200_OK]

Init ==
    /\ users = EmptyDoc
    /\ prefs = EmptyDoc
    /\ profile = EmptyDoc
    /\ last_write = EmptyDoc
    /\ inflight = EmptyDoc
    /\ table = << >>
    /\ outbox = {}
    /\ listing = None
    /\ embed = NoCall
    /\ batch = NoRun
    /\ resp = NoResponse

NextUser ==
    \E authorization \in Authorizations :
        \/ get_user(authorization)
        \/ \E user_data \in Bodies : create_user(user_data, authorization)
        \/ \E user_data \in Bodies : update_user(user_data, authorization)

SpecUser == Init /\ [][NextUser]_vars

\* the preference handlers, one request at a time, the store client working
NextVotes ==
    \E authorization \in Authorizations, edition \in Editions :
        \/ \E submission_id \in Submissions, action \in Actions :
               update_user_votes(edition, submission_id, action,
                                 authorization, "ok", "ok")
        \/ get_user_votes_all(authorization)
        \/ get_user_votes(edition, authorization)

SpecVotes == Init /\ [][NextVotes]_vars

\* voting, and the your-votes view of the listing
NextYourVotes ==
    \E authorization \in Authorizations, edition \in Editions :
        \/ \E submission_id \in Submissions, action \in Actions :
               update_user_votes(edition, submission_id, action,
                                 authorization, "ok", "ok")
        \/ \E skip \in 0..1, limit \in 1..MaxLimit :
               /\ get_abstracts(edition, None, Some("your-votes"), None, None,
                                skip, limit, authorization)
               /\ UNCHANGED listing

SpecYourVotes == Init /\ [][NextYourVotes]_vars

\* the same, with a store client that may raise on the read or on the write
\* (a request whose read raises never comes to its write)
FaultCases ==
    {<<rf, "ok">> : rf \in Faults} \cup {<<"ok", wf>> : wf \in Faults}

NextFault ==
    \E authorization \in Authorizations, edition \in Editions,
       submission_id \in Submissions, action \in Actions,
       f \in FaultCases :
        update_user_votes(edition, submission_id, action, authorization,
                          f[1], f[2])

SpecFault == Init /\ [][NextFault]_vars

\* the abstract listing, as a function of its request: one request, drawn
\* from the bounded parameter sets, is served
ListingRequests ==
    [edition : Editions, q : Queries, view : Views,
     starttime : StartTimes, endtime : EndTimes,
     skip : -MaxSkip..MaxSkip, limit : -MaxLimit..MaxLimit,
     authorization : Authorizations]

InitPages ==
    /\ users = EmptyDoc
    /\ prefs = EmptyDoc
    /\ profile = EmptyDoc
    /\ last_write = EmptyDoc
    /\ inflight = EmptyDoc
    /\ table = << >>
    /\ outbox = {}
    /\ listing \in {Some(r) : r \in ListingRequests}
    /\ embed = NoCall
    /\ batch = NoRun
    /\ resp = NoResponse

NextPages ==
    /\ listing # None
    /\ LET r == The(listing) IN
       get_abstracts(r.edition, r.q, r.view, r.starttime, r.endtime,
                     r.skip, r.limit, r.authorization)
    /\ listing' = None

SpecPages == InitPages /\ [][NextPages]_vars

\* every handler that takes the bearer credential, called without a valid
\* identity
Anonymous == {a \in Authorizations : get_user_info(a) = None}

NextAnon ==
    \E authorization \in Anonymous :
        \/ \E email_type \in EmailTypes, mail_status \in MailStatuses :
               send_confirmation_email(email_type, authorization, mail_status)
        \/ get_user(authorization)
        \/ \E user_data \in Bodies : create_user(user_data, authorization)
        \/ \E user_data \in Bodies : update_user(user_data, authorization)
        \/ get_user_votes_all(authorization)
        \/ \E edition \in Editions : get_user_votes(edition, authorization)
        \/ \E edition \in Editions, submission_id \in Submissions,
              action \in Actions :
               update_user_votes(edition, submission_id, action,
                                 authorization, "ok", "ok")
        \/ \E edition \in Editions, view \in Views, skip \in 0..1 :
               /\ get_abstracts(edition, None, view, None, None, skip, 1,
                                authorization)
               /\ UNCHANGED listing
        \/ \E submission \in SubmissionBodies, edition \in Editions :
               create_abstract(submission, edition, authorization)

SpecAnon == Init /\ [][NextAnon]_vars

\* the abstract submission, by callers of every kind, with the profiles
\* create_user makes for them
NextSubmit ==
    \/ \E authorization \in Authorizations :
           create_user([id |-> "x", payload |-> [name |-> "a"]], authorization)
    \/ \E submission \in SubmissionBodies, edition \in Editions,
          authorization \in Authorizations :
           create_abstract(submission, edition, authorization)
    \/ \E submission_id \in 1..MaxRecords, submission \in SubmissionBodies,
          edition \in Editions :
           update_abstract(submission_id, submission, edition)

SpecSubmit == Init /\ [][NextSubmit]_vars

\* the embedding script beside one call of calculate_embeddings: the
\* dataframe and option of the call, and the input files of the run, are
\* drawn at the start
InputFiles == UNION {[1..n -> Dataframes] : n \in 0..MaxPaths}

InitEmbed ==
    /\ users = EmptyDoc
    /\ prefs = EmptyDoc
    /\ profile = EmptyDoc
    /\ last_write = EmptyDoc
    /\ inflight = EmptyDoc
    /\ table = << >>
    /\ outbox = {}
    /\ listing = None
    /\ embed \in [pc : {"called"}, df : Dataframes, option : Options]
    /\ batch \in [todo : InputFiles, written : {<< >>}, exc : {None}]
    /\ resp = NoResponse

NextEmbed ==
    \/ call_embeddings
    \/ embed_path

SpecEmbed == InitEmbed /\ [][NextEmbed]_vars

\* overlapping update_user_votes requests
NextRace ==
    \E r \in Requests :
        \/ \E authorization \in Authorizations, edition \in Editions,
              submission_id \in Submissions, action \in Actions :
               begin_vote(r, edition, submission_id, action, authorization)
        \/ finish_vote(r)

SpecRace == Init /\ [][NextRace]_vars

\* the same, for users whose profile create_user has stored
Registered == [u \in Users |-> [name |-> "a"]]

InitFrame ==
    /\ users = Registered
    /\ prefs = EmptyDoc
    /\ profile = Registered
    /\ last_write = Registered
    /\ inflight = EmptyDoc
    /\ table = << >>
    /\ outbox = {}
    /\ listing = None
    /\ embed = NoCall
    /\ batch = NoRun
    /\ resp = NoResponse

SpecFrame == InitFrame /\ [][NextRace]_vars

====
